---- MODULE Spec2Model ----
(***************************************************************************)
(* A model of src/main.py: the YouTube Tools API.                          *)
(*                                                                         *)
(* Text is modelled as a sequence of one-character strings, so that URL    *)
(* parsing and output formatting are computed character by character as    *)
(* urllib and the f-strings of the source compute them.  The code point    *)
(* U+1F517 (the link emoji of the Markdown output) is the single element   *)
(* "U+1F517".  Python's None is the value None below, which is no text.    *)
(***************************************************************************)
EXTENDS Integers, Sequences, FiniteSets, TLC

(***************************************************************************)
(* Bounds of the model.                                                    *)
(***************************************************************************)
\* longest video identifier drawn for the URL resolver
MaxIdLen == 2
\* longest caption sequence the transcript dependency returns
MaxLines == 2

(***************************************************************************)
(* Python values.                                                          *)
(***************************************************************************)
None == <<"<None>">>

\* F applied to the value of v: v is evaluated once, however often F uses it
With(v, F(_)) == CHOOSE r \in {F(x) : x \in {v}} : TRUE

\* bool(v) is False for None, "" and []
Falsy(v) == v = None \/ v = <<>>

\* str(v) inside an f-string: None renders as the text None
Str(v) == IF v = None THEN <<"N", "o", "n", "e">> ELSE v

\* dict.get(key, default) on a dict modelled as a function
DictGet(d, key, default) == IF key \in DOMAIN d THEN d[key] ELSE default

EmptyDict == [k \in {} |-> None]

(***************************************************************************)
(* str methods.                                                            *)
(***************************************************************************)
\* s.find(c) + 1 for a one-character c: 0 when absent
Find(s, c) == IF \E i \in 1..Len(s) : s[i] = c
              THEN CHOOSE i \in 1..Len(s) : s[i] = c /\ \A j \in 1..(i - 1) : s[j] # c
              ELSE 0

\* s.rfind(c) + 1
RFind(s, c) == IF \E i \in 1..Len(s) : s[i] = c
               THEN CHOOSE i \in 1..Len(s) : s[i] = c /\ \A j \in (i + 1)..Len(s) : s[j] # c
               ELSE 0

\* s[i:] with a 1-based first index
From(s, i) == SubSeq(s, i, Len(s))

\* s.startswith(p)
StartsWith(s, p) == Len(s) >= Len(p) /\ SubSeq(s, 1, Len(p)) = p

\* s.split(c)
RECURSIVE Split(_, _)
Split(s, c) == With(Find(s, c), LAMBDA i :
                   IF i = 0 THEN <<s>>
                   ELSE With(From(s, i + 1), LAMBDA rest :
                            <<SubSeq(s, 1, i - 1)>> \o Split(rest, c)))

\* sep.join(parts)
RECURSIVE Join(_, _)
Join(parts, sep) == IF parts = <<>> THEN <<>>
                    ELSE IF Len(parts) = 1 THEN parts[1]
                    ELSE With(Tail(parts), LAMBDA rest : parts[1] \o sep \o Join(rest, sep))

UpperLetters == <<"A", "B", "C", "D", "E", "F", "G", "H", "I", "J", "K", "L", "M",
                  "N", "O", "P", "Q", "R", "S", "T", "U", "V", "W", "X", "Y", "Z">>
LowerLetters == <<"a", "b", "c", "d", "e", "f", "g", "h", "i", "j", "k", "l", "m",
                  "n", "o", "p", "q", "r", "s", "t", "u", "v", "w", "x", "y", "z">>
DigitChars == <<"0", "1", "2", "3", "4", "5", "6", "7", "8", "9">>

Range(f) == {f[i] : i \in DOMAIN f}

\* s.lower()
Lower(s) == [i \in 1..Len(s) |->
               IF s[i] \in Range(UpperLetters)
               THEN LowerLetters[CHOOSE k \in 1..26 : UpperLetters[k] = s[i]]
               ELSE s[i]]

(***************************************************************************)
(* urllib.parse, as far as get_youtube_video_id uses it.  The inputs of    *)
(* the model hold none of "%", ";", whitespace or non-ASCII characters,    *)
(* so percent-decoding, path parameters and the stripping of control       *)
(* characters are left out.                                                *)
(***************************************************************************)
NoExc == "none"

SchemeChars == Range(UpperLetters) \cup Range(LowerLetters) \cup Range(DigitChars)
                 \cup {"+", "-", "."}

\* urlsplit: the scheme is the text before the first ":" when it starts
\* with a letter and holds scheme characters only
SchemeEnd(url) == LET i == Find(url, ":")
                  IN  IF /\ i > 1
                         /\ url[1] \in Range(UpperLetters) \cup Range(LowerLetters)
                         /\ \A j \in 1..(i - 1) : url[j] \in SchemeChars
                      THEN i ELSE 0

\* _splitnetloc: the authority runs to the first of "/", "?", "#"
NetlocEnd(rest) == IF \E i \in 3..Len(rest) : rest[i] \in {"/", "?", "#"}
                   THEN (CHOOSE i \in 3..Len(rest) :
                           /\ rest[i] \in {"/", "?", "#"}
                           /\ \A j \in 3..(i - 1) : rest[j] \notin {"/", "?", "#"}) - 1
                   ELSE Len(rest)

\* urlsplit raises ValueError("Invalid IPv6 URL") on an unmatched bracket
UnbalancedBrackets(netloc) ==
    \/ (Find(netloc, "[") > 0 /\ Find(netloc, "]") = 0)
    \/ (Find(netloc, "]") > 0 /\ Find(netloc, "[") = 0)

\* urlparse(url): exc is the exception raised, if any
urlparse(url) ==
    With(SchemeEnd(url), LAMBDA se :
    With(IF se > 0 THEN From(url, se + 1) ELSE url, LAMBDA rest :
    With(StartsWith(rest, <<"/", "/">>), LAMBDA hasNet :
    With(IF hasNet THEN NetlocEnd(rest) ELSE 0, LAMBDA ne :
    With(IF hasNet THEN SubSeq(rest, 3, ne) ELSE <<>>, LAMBDA netloc :
    With(IF hasNet THEN From(rest, ne + 1) ELSE rest, LAMBDA afterNet :
    With(Find(afterNet, "#"), LAMBDA fi :
    With(IF fi > 0 THEN SubSeq(afterNet, 1, fi - 1) ELSE afterNet, LAMBDA noFrag :
    With(Find(noFrag, "?"), LAMBDA qi :
        [exc      |-> IF hasNet /\ UnbalancedBrackets(netloc) THEN "ValueError" ELSE NoExc,
         scheme   |-> IF se > 0 THEN Lower(SubSeq(url, 1, se - 1)) ELSE <<>>,
         netloc   |-> netloc,
         path     |-> IF qi > 0 THEN SubSeq(noFrag, 1, qi - 1) ELSE noFrag,
         query    |-> IF qi > 0 THEN From(noFrag, qi + 1) ELSE <<>>,
         fragment |-> IF fi > 0 THEN From(afterNet, fi + 1) ELSE <<>>])))))))))

\* ParseResult.hostname: drop userinfo and port, lower-case, None when empty
hostname(parsed_url) ==
    With(RFind(parsed_url.netloc, "@"), LAMBDA at :
    With(IF at > 0 THEN From(parsed_url.netloc, at + 1) ELSE parsed_url.netloc,
         LAMBDA hostinfo :
    With(Find(hostinfo, "["), LAMBDA ob :
    With(From(hostinfo, ob + 1), LAMBDA brack :
    With(Find(brack, "]"), LAMBDA cb :
    With(Find(hostinfo, ":"), LAMBDA colon :
    With(IF ob > 0
         THEN (IF cb > 0 THEN SubSeq(brack, 1, cb - 1) ELSE brack)
         ELSE (IF colon > 0 THEN SubSeq(hostinfo, 1, colon - 1) ELSE hostinfo),
         LAMBDA host :
        IF host = <<>> THEN None ELSE Lower(host))))))))

\* the replacement of "+" by a space that parse_qs applies to names and values
PlusToSpace(s) == [i \in 1..Len(s) |-> IF s[i] = "+" THEN " " ELSE s[i]]

\* parse_qs(query)[key] as a list, [] when the key is absent: fields are
\* split on "&", a field with a blank value is dropped
RECURSIVE QsValues(_, _)
QsValues(fields, key) ==
    IF fields = <<>> THEN <<>>
    ELSE With(fields[1], LAMBDA f :
         With(Find(f, "="), LAMBDA eq :
         With(PlusToSpace(IF eq > 0 THEN SubSeq(f, 1, eq - 1) ELSE f), LAMBDA name :
         With(PlusToSpace(IF eq > 0 THEN From(f, eq + 1) ELSE <<>>), LAMBDA value :
         With(Tail(fields), LAMBDA rest :
             (IF f # <<>> /\ value # <<>> /\ name = key THEN <<value>> ELSE <<>>)
               \o QsValues(rest, key))))))

parse_qs_get(query, key) == QsValues(Split(query, "&"), key)

(***************************************************************************)
(* YouTubeTools.get_youtube_video_id                                       *)
(***************************************************************************)
S_youtu_be        == <<"y", "o", "u", "t", "u", ".", "b", "e">>
S_youtube_com     == <<"y", "o", "u", "t", "u", "b", "e", ".", "c", "o", "m">>
S_www_youtube_com == <<"w", "w", "w", ".">> \o S_youtube_com
S_watch           == <<"/", "w", "a", "t", "c", "h">>
S_embed           == <<"/", "e", "m", "b", "e", "d", "/">>
S_v               == <<"/", "v", "/">>

\* WatchId taking the last value of the v parameter
WatchIdMutant(query) == With(parse_qs_get(query, <<"v">>), LAMBDA vs :
                            IF vs = <<>> THEN None ELSE vs[Len(vs)])
\* the video id for a watch URL: the first value of the v parameter
WatchId(query) == With(parse_qs_get(query, <<"v">>), LAMBDA vs :
                      IF vs = <<>> THEN None ELSE vs[1])

\* get_youtube_video_id comparing the path with /watch by startswith
get_youtube_video_id_Mutant(url) ==
    With(urlparse(url), LAMBDA parsed_url :
      With(hostname(parsed_url), LAMBDA host :
        IF parsed_url.exc # NoExc THEN [exc |-> parsed_url.exc, ret |-> None]
        ELSE IF host = S_youtu_be THEN [exc |-> NoExc, ret |-> From(parsed_url.path, 2)]
        ELSE IF host \in {S_www_youtube_com, S_youtube_com}
             THEN IF StartsWith(parsed_url.path, S_watch)
                  THEN [exc |-> NoExc, ret |-> WatchId(parsed_url.query)]
                  ELSE IF StartsWith(parsed_url.path, S_embed)
                       THEN [exc |-> NoExc, ret |-> Split(parsed_url.path, "/")[3]]
                  ELSE IF StartsWith(parsed_url.path, S_v)
                       THEN [exc |-> NoExc, ret |-> Split(parsed_url.path, "/")[3]]
                  ELSE [exc |-> NoExc, ret |-> None]
        ELSE [exc |-> NoExc, ret |-> None]))
\* [exc, ret]: the exception that leaves the function, or the value returned
get_youtube_video_id(url) ==
    With(urlparse(url), LAMBDA parsed_url :
      With(hostname(parsed_url), LAMBDA host :
        IF parsed_url.exc # NoExc THEN [exc |-> parsed_url.exc, ret |-> None]
        ELSE IF host = S_youtu_be THEN [exc |-> NoExc, ret |-> From(parsed_url.path, 2)]
        ELSE IF host \in {S_www_youtube_com, S_youtube_com}
             THEN IF parsed_url.path = S_watch
                  THEN [exc |-> NoExc, ret |-> WatchId(parsed_url.query)]
                  ELSE IF StartsWith(parsed_url.path, S_embed)
                       THEN [exc |-> NoExc, ret |-> Split(parsed_url.path, "/")[3]]
                  ELSE IF StartsWith(parsed_url.path, S_v)
                       THEN [exc |-> NoExc, ret |-> Split(parsed_url.path, "/")[3]]
                  ELSE [exc |-> NoExc, ret |-> None]
        ELSE [exc |-> NoExc, ret |-> None]))

(***************************************************************************)
(* The URL texts the model feeds to the program.  A text is put together   *)
(* from a shape: scheme, authority, path, query and fragment.              *)
(***************************************************************************)
IdChars == {"v", "Q", "-"}

\* the identifiers: the non-empty texts over IdChars of at most MaxIdLen characters
RECURSIVE TextsOfLen(_)
TextsOfLen(n) == IF n = 0 THEN {<<>>}
                 ELSE {<<c>> \o t : c \in IdChars, t \in TextsOfLen(n - 1)}
Ids == UNION {TextsOfLen(n) : n \in 1..MaxIdLen}

\* a second identifier, for a repeated v parameter
OtherId == <<"z", "9">>

Schemes == {<<>>, <<"h", "t", "t", "p", "s", ":">>, <<"H", "T", "T", "P", ":">>}

\* name is the host the authority text stands for, None when it stands for none
Hosts == {
    [text |-> S_youtu_be, name |-> S_youtu_be],
    [text |-> S_youtube_com, name |-> S_youtube_com],
    [text |-> S_www_youtube_com, name |-> S_www_youtube_com],
    [text |-> <<"Y", "o", "u", "T", "u", "b", "e", ".", "c", "o", "m">>, name |-> S_youtube_com],
    [text |-> S_youtu_be \o <<":", "4", "4", "3">>, name |-> S_youtu_be],
    [text |-> <<"u", "@">> \o S_youtu_be, name |-> S_youtu_be],
    [text |-> <<"m", ".">> \o S_youtube_com, name |-> <<"m", ".">> \o S_youtube_com],
    [text |-> <<"[">>, name |-> None],
    [text |-> <<>>, name |-> None] }

Kinds == {"plain", "watch", "watch2", "watchlate", "watchnov", "watchblank", "watchnoq",
          "watchslash", "embed", "embedtail", "v", "shorts", "empty"}

PathOf(kind, id) ==
    CASE kind = "plain"      -> <<"/">> \o id
      [] kind = "embed"      -> S_embed \o id
      [] kind = "embedtail"  -> S_embed \o id \o <<"/", "x">>
      [] kind = "v"          -> S_v \o id
      [] kind = "shorts"     -> <<"/", "s", "h", "o", "r", "t", "s", "/">> \o id
      [] kind = "empty"      -> <<>>
      [] kind = "watchslash" -> S_watch \o <<"/">>
      [] OTHER               -> S_watch

\* the text after "?", None when the URL has no "?"
QueryOf(kind, id) ==
    CASE kind \in {"watch", "watchslash"} -> <<"v", "=">> \o id
      [] kind = "watch2"     -> <<"v", "=">> \o id \o <<"&", "v", "=">> \o OtherId
      [] kind = "watchlate"  -> <<"t", "=", "1", "&", "v", "=">> \o id
      [] kind = "watchnov"   -> <<"t", "=", "1">>
      [] kind = "watchblank" -> <<"v", "=">>
      [] OTHER               -> None

Shapes == [scheme : Schemes, slashes : BOOLEAN, host : Hosts, kind : Kinds,
           id : Ids, frag : BOOLEAN]

BuildUrl(sh) ==
    sh.scheme
      \o (IF sh.slashes THEN <<"/", "/">> ELSE <<>>)
      \o sh.host.text
      \o PathOf(sh.kind, sh.id)
      \o (IF QueryOf(sh.kind, sh.id) = None THEN <<>> ELSE <<"?">> \o QueryOf(sh.kind, sh.id))
      \o (IF sh.frag THEN <<"#", "t">> ELSE <<>>)

NoShape == [scheme |-> <<>>, slashes |-> FALSE, host |-> [text |-> <<>>, name |-> None],
            kind |-> "empty", id |-> <<>>, frag |-> FALSE]

(***************************************************************************)
(* The external collaborators: what the oembed GET and the transcript      *)
(* dependency can give.                                                    *)
(***************************************************************************)
S_Demo == <<"D", "e", "m", "o">>
S_Al   == <<"A", "l">>

KnownFields == {"title", "author_name", "author_url", "type", "height", "width",
                "version", "provider_name", "provider_url", "thumbnail_url"}

\* the JSON objects of the oembed service: title absent, null or a text;
\* author_name absent or a text; with or without a field the program does not know
OembedDicts ==
    {t @@ a @@ h @@ ("type" :> <<"v", "i", "d", "e", "o">>) :
        t \in {EmptyDict, "title" :> None, "title" :> S_Demo},
        a \in {EmptyDict, "author_name" :> S_Al},
        h \in {EmptyDict, "html" :> <<"<", ">">>}}

\* urlopen raises, the body is no JSON, the JSON is no object, or an object
OembedOutcomes ==
    {[kind |-> k, value |-> EmptyDict] : k \in {"neterr", "nonjson", "nondict"}}
      \cup {[kind |-> "json", value |-> d] : d \in OembedDicts}

\* a caption line: start is the start offset in tenths of a second
CaptionLines == {
    [start |-> 0,     text |-> <<"x">>],
    [start |-> 90,    text |-> <<"x">>],
    [start |-> 599,   text |-> <<"a", " ", "b">>],
    [start |-> 600,   text |-> <<>>],
    [start |-> 759,   text |-> <<"h", "e", "l", "l", "o">>],
    [start |-> 36610, text |-> <<"h", "e", "l", "l", "o">>] }

RECURSIVE LinesOfLen(_)
LinesOfLen(n) == IF n = 0 THEN {<<>>}
                 ELSE {<<l>> \o t : l \in CaptionLines, t \in LinesOfLen(n - 1)}

\* get_transcript raises, or returns a caption sequence
TranscriptOutcomes ==
    {[kind |-> "error", value |-> <<>>]}
      \cup {[kind |-> "ok", value |-> ls] : ls \in UNION {LinesOfLen(n) : n \in 0..MaxLines}}

\* a language code is one element: the program passes the codes on unread
LanguageLists == {None, <<>>, <<"de">>}

(***************************************************************************)
(* The steps the three URL operations share, and get_video_data.           *)
(***************************************************************************)
HTTPException(status, detail) == [status |-> status, body |-> detail]

\* CheckUrl without the tests of `not url` and `not video_id`
CheckUrlMutant(u) ==
    With(get_youtube_video_id(u), LAMBDA r :
        IF r.exc # NoExc
        THEN [status |-> 400, body |-> <<"Error getting video ID from URL">>, video_id |-> None]
        ELSE [status |-> 0, body |-> <<>>, video_id |-> r.ret])
\* lines 53-61, 91-99 and 117-125: the url is checked and resolved.
\* status 0 stands for no exception; video_id is then the identifier.
CheckUrl(u) ==
    IF Falsy(u)
    THEN [status |-> 400, body |-> <<"No URL provided">>, video_id |-> None]
    ELSE With(get_youtube_video_id(u), LAMBDA r :
             IF r.exc # NoExc \/ Falsy(r.ret)
             THEN [status |-> 400, body |-> <<"Error getting video ID from URL">>,
                   video_id |-> None]
             ELSE [status |-> 0, body |-> <<>>, video_id |-> r.ret])

S_WatchPrefix == <<"h", "t", "t", "p", "s", ":", "/", "/">> \o S_www_youtube_com
                   \o S_watch \o <<"?", "v", "=">>

\* f"https://www.youtube.com/watch?v={video_id}"
WatchUrl(id) == S_WatchPrefix \o id

OembedCall(id) == [svc |-> "oembed", arg |-> WatchUrl(id), languages |-> None]
TranscriptCall(id, langs) == [svc |-> "transcript", arg |-> id, languages |-> langs]

\* lines 72-83: the ten known fields, None for a field the response omits
clean_data(video_data) == [k \in KnownFields |-> DictGet(video_data, k, None)]

\* VideoDataResult without the except clause of line 85
VideoDataResultMutant(out) == [status |-> 200, body |-> clean_data(out.value)]
\* lines 69-86: what get_video_data makes of the oembed outcome
VideoDataResult(out) ==
    IF out.kind = "json"
    THEN [status |-> 200, body |-> clean_data(out.value)]
    ELSE HTTPException(500, <<"Error getting video data: ", out.kind>>)

(***************************************************************************)
(* Formatting.                                                             *)
(***************************************************************************)
\* str(n) of a natural number
RECURSIVE Dec(_)
Dec(n) == IF n < 10 THEN <<DigitChars[n + 1]>>
          ELSE Dec(n \div 10) \o <<DigitChars[(n % 10) + 1]>>

\* f"{n}": Pad2 without the width
Pad2Mutant(n) == Dec(n)
\* f"{n:02d}"
Pad2(n) == IF n < 10 THEN <<"0">> \o Dec(n) ELSE Dec(n)

\* int(line["start"]) of a non-negative offset given in tenths
IntStart(line) == line.start \div 10

\* lines 131-133: one rendered timestamp
Timestamp(line) ==
    LET start   == IntStart(line)
        minutes == start \div 60
        seconds == start % 60
    IN  Dec(minutes) \o <<":">> \o Pad2(seconds) \o <<" ", "-", " ">> \o line.text

\* lines 129-134
Timestamps(captions) == [i \in 1..Len(captions) |-> Timestamp(captions[i])]

Texts(captions) == [i \in 1..Len(captions) |-> captions[i].text]

S_NoCaptionsFound == <<"N", "o", " ", "c", "a", "p", "t", "i", "o", "n", "s", " ", "f", "o",
                       "u", "n", "d", " ", "f", "o", "r", " ", "v", "i", "d", "e", "o">>

\* CaptionsText without the test of line 108
CaptionsTextMutant(captions) == Join(Texts(captions), <<" ">>)
\* lines 108-110
CaptionsText(captions) ==
    IF captions # <<>> THEN Join(Texts(captions), <<" ">>) ELSE S_NoCaptionsFound

\* lines 101-112 and 127-136: what the operation makes of the transcript outcome
VideoCaptionsResult(out) ==
    IF out.kind = "ok"
    THEN [status |-> 200, body |-> CaptionsText(out.value)]
    ELSE HTTPException(500, <<"Error getting captions for video: ", out.kind>>)

VideoTimestampsResult(out) ==
    IF out.kind = "ok"
    THEN [status |-> 200, body |-> Timestamps(out.value)]
    ELSE HTTPException(500, <<"Error generating timestamps: ", out.kind>>)

S_YouTubeVideo == <<"Y", "o", "u", "T", "u", "b", "e", " ", "V", "i", "d", "e", "o">>
S_Unknown      == <<"U", "n", "k", "n", "o", "w", "n">>
S_NoneAvailable == <<"N", "o", " ", "c", "a", "p", "t", "i", "o", "n", "s", " ", "a", "v", "a",
                     "i", "l", "a", "b", "l", "e", " ", "f", "o", "r", " ", "t", "h", "i", "s",
                     " ", "v", "i", "d", "e", "o", ".">>
S_NoneFound == <<"N", "o", " ", "c", "a", "p", "t", "i", "o", "n", "s", " ", "f", "o", "u",
                 "n", "d", " ", "f", "o", "r", " ", "t", "h", "i", "s", " ", "v", "i", "d",
                 "e", "o", ".">>
S_Transcript == <<"#", "#", " ", "T", "r", "a", "n", "s", "c", "r", "i", "p", "t">>
NL2 == <<"\n", "\n">>

\* f"# {video_data.get('title', 'YouTube Video')}"
Heading(video_data) == <<"#", " ">> \o Str(DictGet(video_data, "title", S_YouTubeVideo))

\* the watch-link line
LinkLine(u) == <<"U+1F517", " ", "[", "W", "a", "t", "c", "h", " ", "o", "n", " ", "Y",
                 "o", "u", "T", "u", "b", "e", "]", "(">> \o u \o <<")">>

\* line 155
DegradedDoc(video_data, u) ==
    Heading(video_data) \o NL2 \o S_NoneAvailable \o NL2 \o LinkLine(u)

\* line 158
EmptyDoc(video_data, u) ==
    Heading(video_data) \o NL2 \o S_NoneFound \o NL2 \o LinkLine(u)

\* lines 161-170
FullDoc(video_data, u, captions) ==
    Heading(video_data) \o NL2
      \o <<"B", "y", ":", " ">> \o Str(DictGet(video_data, "author_name", S_Unknown)) \o NL2
      \o LinkLine(u) \o NL2
      \o S_Transcript \o NL2
      \o Join(Texts(captions), <<" ">>)

\* MarkdownResult letting a transcript failure through to line 171
MarkdownResultMutant(video_data, u, out) ==
    IF out.kind # "ok"
    THEN HTTPException(500, <<"Error getting captions for video: ", out.kind>>)
    ELSE IF out.value = <<>> THEN [status |-> 200, body |-> EmptyDoc(video_data, u)]
    ELSE [status |-> 200, body |-> FullDoc(video_data, u, out.value)]
\* lines 148-170: what get_video_captions_markdown makes of the transcript outcome
MarkdownResult(video_data, u, out) ==
    IF out.kind # "ok" THEN [status |-> 200, body |-> DegradedDoc(video_data, u)]
    ELSE IF out.value = <<>> THEN [status |-> 200, body |-> EmptyDoc(video_data, u)]
    ELSE [status |-> 200, body |-> FullDoc(video_data, u, out.value)]

\* lines 171-172: the except clause around the body of get_video_captions_markdown
MarkdownExcept(e) ==
    HTTPException(500, <<"Error getting captions for video: ">> \o e.body)

\* lines 225-226: the except clause of the /youtube/captions endpoint
EndpointExcept(e) ==
    HTTPException(500, <<"Error processing request: ">> \o e.body)

(***************************************************************************)
(* State.                                                                  *)
(***************************************************************************)
VARIABLES
    pc,         \* where the program is: "idle", inside an operation, or "done"
    endpoint,   \* the operation in progress
    shape,      \* the shape the input text was put together from
    url,        \* the url of the operation (argument, or line 145)
    video_id,   \* the video_id of the operation (line 57, or argument)
    languages,  \* the languages argument
    resolved,   \* what get_youtube_video_id gave when called on its own
    calls,      \* the external calls issued so far by the request, in order
    oembed,     \* what the oembed GET gave
    transcript, \* what the transcript dependency gave
    video_data, \* video_data of get_video_captions_markdown (line 146)
    response    \* the HTTP response of the request

vars == <<pc, endpoint, shape, url, video_id, languages, resolved, calls, oembed,
          transcript, video_data, response>>

NotCalled == [kind |-> "notcalled", value |-> <<>>]
NoResponse == [status |-> 0, body |-> <<>>]
NotResolved == [exc |-> NoExc, ret |-> <<"<unset>">>]

Init ==
    /\ pc = "idle"
    /\ endpoint = "none"
    /\ shape = NoShape
    /\ url = <<>>
    /\ video_id = None
    /\ languages = None
    /\ resolved = NotResolved
    /\ calls = <<>>
    /\ oembed = NotCalled
    /\ transcript = NotCalled
    /\ video_data = EmptyDict
    /\ response = NoResponse

\* the shapes of the url a request carries; a request may also carry ""
RequestShapes == {sh \in Shapes : /\ sh.scheme = <<"h", "t", "t", "p", "s", ":">>
                                  /\ sh.slashes
                                  /\ ~sh.frag
                                  /\ sh.id = <<"v", "Q">>}

\* the videoId parameters of GET /youtube/captions
VideoIds == {<<>>, <<"v", "Q">>, <<"v", "Q", "&", "t", "=", "1">>,
             <<"#", "v">>, <<"&">>, <<"Q", "+", "v">>}

\* a call of YouTubeTools.get_youtube_video_id on a URL text
Resolve ==
    /\ pc = "idle"
    /\ \E sh \in Shapes :
         /\ shape' = sh
         /\ url' = BuildUrl(sh)
         /\ resolved' = get_youtube_video_id(BuildUrl(sh))
    /\ pc' = "resolved"
    /\ endpoint' = "get_youtube_video_id"
    /\ UNCHANGED <<video_id, languages, calls, oembed, transcript, video_data, response>>

\* a request with a url arrives at op: the url is checked and resolved, and
\* the request either ends with the 400 or issues its external call
StartUrlRequest(op, u, next, svc, langs) ==
    /\ pc = "idle"
    /\ endpoint' = op
    /\ url' = u
    /\ \E c \in {CheckUrl(u)} :
           IF c.status # 0
           THEN /\ response' = HTTPException(c.status, c.body)
                /\ pc' = "done"
                /\ UNCHANGED <<video_id, calls>>
           ELSE /\ video_id' = c.video_id
                /\ calls' = Append(calls, IF svc = "oembed" THEN OembedCall(c.video_id)
                                         ELSE TranscriptCall(c.video_id, langs))
                /\ pc' = next
                /\ UNCHANGED response
    /\ UNCHANGED <<resolved, oembed, transcript, video_data>>

\* POST /video-data: get_video_data up to the oembed GET (lines 53-69)
VideoDataStart ==
    \E sh \in RequestShapes \cup {NoShape} :
        /\ shape' = sh
        /\ languages' = None
        /\ StartUrlRequest("video-data", BuildUrl(sh), "vd_oembed", "oembed", None)

\* the oembed GET of get_video_data ends (lines 69-86)
VideoDataReturn ==
    /\ pc = "vd_oembed"
    /\ \E out \in OembedOutcomes :
         /\ oembed' = out
         /\ response' = VideoDataResult(out)
    /\ pc' = "done"
    /\ UNCHANGED <<endpoint, shape, url, video_id, languages, resolved, calls, transcript,
                   video_data>>

\* POST /video-captions: get_video_captions up to get_transcript (lines 91-106)
VideoCaptionsStart ==
    \E sh \in RequestShapes \cup {NoShape}, langs \in LanguageLists :
        /\ shape' = sh
        /\ languages' = langs
        /\ StartUrlRequest("video-captions", BuildUrl(sh), "vc_transcript", "transcript",
                           IF Falsy(langs) THEN None ELSE langs)

\* VideoCaptionsReturn fetching the transcript once more after a failure
VideoCaptionsReturnMutant ==
    /\ pc = "vc_transcript"
    /\ \E out \in TranscriptOutcomes :
         /\ transcript' = out
         /\ IF out.kind = "error" /\ Len(calls) < 2
            THEN /\ calls' = Append(calls, calls[1])
                 /\ UNCHANGED <<pc, response>>
            ELSE /\ response' = VideoCaptionsResult(out)
                 /\ pc' = "done"
                 /\ UNCHANGED calls
    /\ UNCHANGED <<endpoint, shape, url, video_id, languages, resolved, oembed, video_data>>
\* get_transcript of get_video_captions ends (lines 104-112)
VideoCaptionsReturn ==
    /\ pc = "vc_transcript"
    /\ \E out \in TranscriptOutcomes :
         /\ transcript' = out
         /\ response' = VideoCaptionsResult(out)
    /\ pc' = "done"
    /\ UNCHANGED <<endpoint, shape, url, video_id, languages, resolved, calls, oembed,
                   video_data>>

\* POST /video-timestamps: get_video_timestamps up to get_transcript (lines 117-128)
VideoTimestampsStart ==
    \E sh \in RequestShapes \cup {NoShape}, langs \in LanguageLists :
        /\ shape' = sh
        /\ languages' = langs
        /\ StartUrlRequest("video-timestamps", BuildUrl(sh), "vt_transcript", "transcript",
                           IF Falsy(langs) THEN <<"en">> ELSE langs)

\* get_transcript of get_video_timestamps ends (lines 128-136)
VideoTimestampsReturn ==
    /\ pc = "vt_transcript"
    /\ \E out \in TranscriptOutcomes :
         /\ transcript' = out
         /\ response' = VideoTimestampsResult(out)
    /\ pc' = "done"
    /\ UNCHANGED <<endpoint, shape, url, video_id, languages, resolved, calls, oembed,
                   video_data>>

\* GET /youtube/captions: get_video_captions_markdown up to the oembed GET of
\* the get_video_data it calls (lines 222-223, 141-146, 53-69).  A 400 raised
\* on the way passes the except clauses of lines 171 and 225.
MarkdownStart ==
    /\ pc = "idle"
    /\ endpoint' = "youtube/captions"
    /\ shape' = NoShape
    /\ languages' = None
    /\ \E id \in VideoIds :
         /\ video_id' = id
         /\ IF Falsy(id)
            THEN /\ response' = EndpointExcept(HTTPException(400, <<"No video ID provided">>))
                 /\ pc' = "done"
                 /\ UNCHANGED <<url, calls>>
            ELSE /\ url' = WatchUrl(id)
                 /\ \E c \in {CheckUrl(WatchUrl(id))} :
                        IF c.status # 0
                        THEN /\ response' = EndpointExcept(MarkdownExcept(
                                                HTTPException(c.status, c.body)))
                             /\ pc' = "done"
                             /\ UNCHANGED calls
                        ELSE /\ calls' = Append(calls, OembedCall(c.video_id))
                             /\ pc' = "md_oembed"
                             /\ UNCHANGED response
    /\ UNCHANGED <<resolved, oembed, transcript, video_data>>

\* the oembed GET ends inside get_video_captions_markdown: a failure leaves
\* through the except clauses, a success goes on to get_transcript
\* (lines 69-86, 146-153)
MarkdownOembedReturn ==
    /\ pc = "md_oembed"
    /\ \E out \in OembedOutcomes :
         /\ oembed' = out
         /\ \E r \in {VideoDataResult(out)} :
                IF r.status # 200
                THEN /\ response' = EndpointExcept(MarkdownExcept(r))
                     /\ pc' = "done"
                     /\ UNCHANGED <<video_data, calls>>
                ELSE /\ video_data' = r.body
                     /\ calls' = Append(calls, TranscriptCall(video_id, None))
                     /\ pc' = "md_transcript"
                     /\ UNCHANGED response
    /\ UNCHANGED <<endpoint, shape, url, video_id, languages, resolved, transcript>>

\* get_transcript ends inside get_video_captions_markdown (lines 149-170, 224)
MarkdownTranscriptReturn ==
    /\ pc = "md_transcript"
    /\ \E out \in TranscriptOutcomes :
         /\ transcript' = out
         /\ response' = MarkdownResult(video_data, url, out)
    /\ pc' = "done"
    /\ UNCHANGED <<endpoint, shape, url, video_id, languages, resolved, calls, oembed,
                   video_data>>

\* the result is handed over: the program holds no state across requests
Finish ==
    /\ pc \in {"resolved", "done"}
    /\ pc' = "idle"
    /\ endpoint' = "none"
    /\ shape' = NoShape
    /\ url' = <<>>
    /\ video_id' = None
    /\ languages' = None
    /\ resolved' = NotResolved
    /\ calls' = <<>>
    /\ oembed' = NotCalled
    /\ transcript' = NotCalled
    /\ video_data' = EmptyDict
    /\ response' = NoResponse

Next ==
    \/ Resolve
    \/ VideoDataStart
    \/ VideoDataReturn
    \/ VideoCaptionsStart
    \/ VideoCaptionsReturn
    \/ VideoTimestampsStart
    \/ VideoTimestampsReturn
    \/ MarkdownStart
    \/ MarkdownOembedReturn
    \/ MarkdownTranscriptReturn
    \/ Finish

Spec == Init /\ [][Next]_vars

(***************************************************************************)
(* Vocabulary of the properties.                                           *)
(***************************************************************************)
UrlOps == {"video-data", "video-captions", "video-timestamps"}
Markdown == "youtube/captions"

TextChars == Range(UpperLetters) \cup Range(LowerLetters) \cup Range(DigitChars)
               \cup {"-", "_", ".", ":", "/", "?", "=", "&", "#", "@", "[", "]", "+", " "}

IsText(v) == \A i \in 1..Len(v) : v[i] \in TextChars

\* the URL Resolver yields no video id for u
NoVideoId(u) == \E r \in {get_youtube_video_id(u)} : r.exc # NoExc \/ r.ret \in {None, <<>>}

\* sub occurs in s
Contains(s, sub) == \E i \in 1..(Len(s) - Len(sub) + 1) : SubSeq(s, i, i + Len(sub) - 1) = sub

OembedFailed == oembed.kind \in {"neterr", "nonjson", "nondict"}
TranscriptFailed == transcript.kind = "error"

\* the oembed response has a title
HasTitle == /\ oembed.kind = "json"
            /\ "title" \in DOMAIN oembed.value
            /\ oembed.value["title"] # None

\* the watch-link line of the Markdown output for video id
WatchLinkLine(id) ==
    <<"U+1F517", " ", "[", "W", "a", "t", "c", "h", " ", "o", "n", " ", "Y", "o", "u", "T",
      "u", "b", "e", "]", "(", "h", "t", "t", "p", "s", ":", "/", "/", "w", "w", "w", ".",
      "y", "o", "u", "t", "u", "b", "e", ".", "c", "o", "m", "/", "w", "a", "t", "c", "h",
      "?", "v", "=">> \o id \o <<")">>

\* the number a text of decimal digits stands for
DigitVal(c) == (CHOOSE k \in 1..10 : DigitChars[k] = c) - 1
RECURSIVE ParseDec(_)
ParseDec(t) == IF Len(t) = 1 THEN DigitVal(t[1])
               ELSE 10 * ParseDec(SubSeq(t, 1, Len(t) - 1)) + DigitVal(t[Len(t)])
IsDigits(t) == t # <<>> /\ \A i \in 1..Len(t) : t[i] \in Range(DigitChars)

(***************************************************************************)
(* C1.  In get_video_data, get_video_captions and get_video_timestamps, an *)
(* empty url, or one the URL Resolver yields no video id for, ends the     *)
(* request with HTTP 400, and no external call (oembed GET or transcript   *)
(* fetch) has been issued during the request.                              *)
(***************************************************************************)
C1_InvalidInputFailsBeforeAnyCall ==
    (endpoint \in UrlOps /\ NoVideoId(url))
        => /\ pc = "done"
           /\ response.status = 400
           /\ calls = <<>>
           /\ oembed = NotCalled
           /\ transcript = NotCalled

\* a request whose non-empty url resolves to no video id has been answered
C1_Witness ==
    /\ pc = "done"
    /\ endpoint = "video-captions"
    /\ url # <<>>
    /\ NoVideoId(url)
    /\ response.status = 400

(***************************************************************************)
(* C2.  On every endpoint an error response has status 400 exactly when    *)
(* its cause is a missing or empty URL or video id or an unresolvable      *)
(* video id, and status 500 exactly when its cause is an upstream failure; *)
(* an invalid input is never reported as 500, also when the 400 is raised  *)
(* inside get_video_captions_markdown or its nested get_video_data call.   *)
(***************************************************************************)
InvalidInputCause ==
    IF endpoint = Markdown
    THEN Falsy(video_id) \/ NoVideoId(WatchUrl(video_id))
    ELSE NoVideoId(url)

UpstreamCause == OembedFailed \/ TranscriptFailed

C2_StatusMatchesCause ==
    (pc = "done" /\ endpoint \in UrlOps \cup {Markdown} /\ response.status # 200)
        => /\ response.status = 400 <=> InvalidInputCause
           /\ response.status = 500 <=> UpstreamCause

(***************************************************************************)
(* C3.  In get_video_captions_markdown, when the metadata step succeeds    *)
(* and the transcript dependency fails, the operation does not raise: it   *)
(* returns a document that starts with the heading of the video title and  *)
(* contains "No captions available for this video." followed by the        *)
(* watch-link line of https://www.youtube.com/watch?v=<video_id>.          *)
(***************************************************************************)
C3_TranscriptFailureDegrades ==
    (pc = "done" /\ endpoint = Markdown /\ oembed.kind = "json" /\ TranscriptFailed)
        => /\ response.status = 200
           /\ StartsWith(response.body, <<"#", " ">>)
           /\ HasTitle => StartsWith(response.body,
                                     <<"#", " ">> \o oembed.value["title"] \o <<"\n", "\n">>)
           /\ Contains(response.body,
                       S_NoneAvailable \o <<"\n", "\n">> \o WatchLinkLine(video_id))

\* the transcript fetch failed for a video titled Demo
C3_Witness ==
    /\ pc = "done"
    /\ endpoint = Markdown
    /\ HasTitle
    /\ oembed.value["title"] = S_Demo
    /\ TranscriptFailed
    /\ response.status = 200

(***************************************************************************)
(* C4.  In get_video_captions_markdown and GET /youtube/captions, when the *)
(* metadata step fails because of an upstream failure the request ends in  *)
(* HTTP 500 and returns no Markdown document, degraded or full; the        *)
(* transcript dependency is not consulted.                                 *)
(***************************************************************************)
C4_MetadataFailurePropagates ==
    (endpoint = Markdown /\ OembedFailed)
        => /\ pc = "done"
           /\ response.status = 500
           /\ ~StartsWith(response.body, <<"#", " ">>)
           /\ ~Contains(response.body, S_NoneAvailable)
           /\ transcript = NotCalled

\* the oembed GET of a Markdown request failed
C4_Witness ==
    /\ pc = "done"
    /\ endpoint = Markdown
    /\ oembed.kind = "neterr"
    /\ response.status = 500

(***************************************************************************)
(* C5.  In every document get_video_captions_markdown returns, the heading *)
(* line is "# " followed by the title when the oembed response has one,    *)
(* and "# YouTube Video" when the oembed response omits the title.         *)
(***************************************************************************)
HeadingLine(doc) == Split(doc, "\n")[1]

C5_HeadingDefaultsWhenTitleMissing ==
    (pc = "done" /\ endpoint = Markdown /\ response.status = 200)
        => HeadingLine(response.body) =
              IF HasTitle THEN <<"#", " ">> \o oembed.value["title"]
              ELSE <<"#", " ", "Y", "o", "u", "T", "u", "b", "e", " ", "V", "i", "d", "e", "o">>

(***************************************************************************)
(* C6.  For every identifier ID and each supported URL shape (host         *)
(* youtu.be with path /ID; host youtube.com or www.youtube.com with path   *)
(* /watch and query v=ID, the first v if repeated; path /embed/ID; path    *)
(* /v/ID), get_youtube_video_id returns exactly ID.                        *)
(***************************************************************************)
SupportedShape(sh) ==
    /\ sh.slashes
    /\ \/ sh.host.text = S_youtu_be /\ sh.kind = "plain"
       \/ /\ sh.host.text \in {S_youtube_com, S_www_youtube_com}
          /\ sh.kind \in {"watch", "watch2", "embed", "v"}

C6_SupportedShapesGiveId ==
    (pc = "resolved" /\ SupportedShape(shape))
        => resolved = [exc |-> NoExc, ret |-> shape.id]

\* a watch URL with a repeated v parameter has been resolved
C6_Witness ==
    /\ pc = "resolved"
    /\ SupportedShape(shape)
    /\ shape.kind = "watch2"
    /\ Len(shape.id) = MaxIdLen
    /\ resolved.ret = shape.id

(***************************************************************************)
(* C7.  As claimed: for every input get_youtube_video_id never raises and  *)
(* returns an identifier or None, and None for an unsupported host, for a  *)
(* youtube.com path that is not /watch, /embed/... or /v/..., for /watch   *)
(* without a v parameter, and for malformed URL text.                      *)
(***************************************************************************)
YoutubeHost(sh) == sh.slashes /\ sh.host.name \in {S_youtube_com, S_www_youtube_com}
KnownHost(sh) == sh.slashes /\ sh.host.name \in {S_youtu_be, S_youtube_com, S_www_youtube_com}

\* the cases in which the claim says the result is None
AbsenceCase(sh) ==
    \/ ~KnownHost(sh)
    \/ YoutubeHost(sh) /\ sh.kind \in {"plain", "shorts", "empty", "watchslash"}
    \/ YoutubeHost(sh) /\ sh.kind \in {"watchnov", "watchnoq"}

C7_NeverRaises ==
    pc = "resolved"
        => /\ resolved.exc = NoExc
           /\ resolved.ret = None \/ IsText(resolved.ret)
           /\ AbsenceCase(shape) => resolved.ret = None

(***************************************************************************)
(* C7, amended.  get_youtube_video_id raises exactly when urlparse rejects *)
(* the text, which it does with ValueError for an authority holding an     *)
(* unmatched square bracket; on every other input it returns an identifier *)
(* or None, and None in the cases the claim lists.                         *)
(***************************************************************************)
RejectedByUrlparse(sh) == sh.slashes /\ sh.host.text = <<"[">>

C7_RaisesOnlyOnRejectedUrl ==
    pc = "resolved"
        => /\ resolved.exc = (IF RejectedByUrlparse(shape) THEN "ValueError" ELSE NoExc)
           /\ resolved.exc = NoExc =>
                 /\ resolved.ret = None \/ IsText(resolved.ret)
                 /\ AbsenceCase(shape) => resolved.ret = None

\* a text urlparse rejects has been given to the resolver, which raised
C7_Witness ==
    /\ pc = "resolved"
    /\ RejectedByUrlparse(shape)
    /\ resolved.exc = "ValueError"

(***************************************************************************)
(* C8.  For every caption sequence the transcript dependency returns,      *)
(* get_video_timestamps returns a list of the same length and order whose  *)
(* entry i is "{m}:{ss} - {text_i}", m = floor(start_i) div 60 unpadded    *)
(* and ss = floor(start_i) mod 60 in exactly two digits; start 75.9 gives  *)
(* "1:15 - hello" and start 9 gives "0:09 - x".                            *)
(***************************************************************************)
EntryMatches(e, line) ==
    \E colon \in {Find(e, ":")} :
        /\ colon > 1
        /\ IsDigits(SubSeq(e, 1, colon - 1))
        /\ e[1] # "0" \/ colon = 2
        /\ ParseDec(SubSeq(e, 1, colon - 1)) = (line.start \div 10) \div 60
        /\ Len(e) >= colon + 5
        /\ IsDigits(SubSeq(e, colon + 1, colon + 2))
        /\ ParseDec(SubSeq(e, colon + 1, colon + 2)) = (line.start \div 10) % 60
        /\ ParseDec(SubSeq(e, colon + 1, colon + 2)) \in 0..59
        /\ SubSeq(e, colon + 3, colon + 5) = <<" ", "-", " ">>
        /\ From(e, colon + 6) = line.text

C8_TimestampsRendered ==
    (pc = "done" /\ endpoint = "video-timestamps" /\ transcript.kind = "ok")
        => /\ response.status = 200
           /\ Len(response.body) = Len(transcript.value)
           /\ \A i \in 1..Len(transcript.value) :
                 /\ EntryMatches(response.body[i], transcript.value[i])
                 /\ transcript.value[i] = [start |-> 759, text |-> <<"h", "e", "l", "l", "o">>]
                      => response.body[i] = <<"1", ":", "1", "5", " ", "-", " ",
                                              "h", "e", "l", "l", "o">>
                 /\ transcript.value[i] = [start |-> 90, text |-> <<"x">>]
                      => response.body[i] = <<"0", ":", "0", "9", " ", "-", " ", "x">>

\* the lines at 75.9 s and at 9 s have been rendered, in this order
C8_Witness ==
    /\ pc = "done"
    /\ endpoint = "video-timestamps"
    /\ transcript.kind = "ok"
    /\ Len(transcript.value) = 2
    /\ transcript.value[1].start = 759
    /\ transcript.value[2].start = 90
    /\ response.status = 200

(***************************************************************************)
(* C9.  For a valid URL whose transcript fetch succeeds get_video_captions *)
(* returns "No captions found for video" when the caption sequence is      *)
(* empty, and otherwise the texts of all lines joined by one space in      *)
(* upstream order; a transcript failure becomes neither, but HTTP 500.     *)
(***************************************************************************)
\* where text i starts in the joined string
RECURSIVE Offset(_, _)
Offset(lines, i) == IF i = 1 THEN 1
                    ELSE Offset(lines, i - 1) + Len(lines[i - 1].text) + 1

JoinedBySpace(body, lines) ==
    /\ Len(body) = Offset(lines, Len(lines)) + Len(lines[Len(lines)].text) - 1
    /\ \A i \in 1..Len(lines) :
          \E off \in {Offset(lines, i)} :
             /\ SubSeq(body, off, off + Len(lines[i].text) - 1) = lines[i].text
             /\ i < Len(lines) => body[off + Len(lines[i].text)] = " "

C9_PlainCaptions ==
    (pc = "done" /\ endpoint = "video-captions" /\ transcript # NotCalled)
        => /\ TranscriptFailed => response.status = 500
           /\ (transcript.kind = "ok" /\ transcript.value = <<>>)
                 => response = [status |-> 200,
                                body |-> <<"N", "o", " ", "c", "a", "p", "t", "i", "o", "n",
                                           "s", " ", "f", "o", "u", "n", "d", " ", "f", "o",
                                           "r", " ", "v", "i", "d", "e", "o">>]
           /\ (transcript.kind = "ok" /\ transcript.value # <<>>)
                 => /\ response.status = 200
                    /\ JoinedBySpace(response.body, transcript.value)

\* captions of several lines have been joined
C9_Witness ==
    /\ pc = "done"
    /\ endpoint = "video-captions"
    /\ transcript.kind = "ok"
    /\ Len(transcript.value) = MaxLines
    /\ response.status = 200

(***************************************************************************)
(* C10.  Within one request no external call is retried: at most one       *)
(* oembed GET and at most one transcript fetch are issued; in              *)
(* get_video_captions_markdown the oembed call precedes the transcript     *)
(* fetch, which is not issued when the metadata step failed; after the     *)
(* first failing external call outside the Markdown caption step no        *)
(* further call is made and the request ends in an error.                  *)
(***************************************************************************)
CallsTo(svc) == Cardinality({i \in 1..Len(calls) : calls[i].svc = svc})

C10_NoRetry ==
    /\ CallsTo("oembed") <= 1
    /\ CallsTo("transcript") <= 1
    /\ endpoint = Markdown =>
          \A i \in 1..Len(calls) :
             calls[i].svc = "transcript"
                => i = 2 /\ calls[1].svc = "oembed" /\ oembed.kind = "json"
    /\ (OembedFailed \/ (TranscriptFailed /\ endpoint # Markdown))
          => /\ pc = "done"
             /\ response.status = 500
             /\ Len(calls) = 1

\* a Markdown request has issued both calls
C10_Witness ==
    /\ pc = "done"
    /\ endpoint = Markdown
    /\ Len(calls) = 2
    /\ calls[1].svc = "oembed"
    /\ calls[2].svc = "transcript"

====
